---- MODULE Spec2Model ----
(***************************************************************************)
(* bevy_single: the system parameter Single<D, F> (src/src/lib.rs).        *)
(*                                                                         *)
(* Single forwards init_state and new_archetype to the host's Query<D, F>  *)
(* and, in get_param, asks the host's QueryState for its unique match.     *)
(* The host (bevy_ecs) is modelled only as far as Single calls into it:    *)
(* a world of entities grouped in archetypes, component change ticks, the  *)
(* query state's matched archetypes and the access sets of SystemMeta.     *)
(*                                                                         *)
(* The data shape D is `&T` ("Ref") or `&mut T` ("Mut"); the filter F is   *)
(* `()` ("NoFilter"), `With<P>` ("WithP") or `Changed<T>` ("ChangedT").    *)
(***************************************************************************)
EXTENDS Integers, Sequences, FiniteSets, TLC

\* ------------------------------------------------------------------ bounds

MaxEntities == 2      \* entity ids ever allocated
MaxTick == 2          \* the world's change tick stops advancing past this
MaxVal == 1           \* values of the component T are 0..MaxVal

Entities == 1..MaxEntities
Values == 0..MaxVal
Components == {"T", "P"}
\* The tick values of the model: the world's change tick runs from 1 to
\* MaxTick + 1; MaxTick + 2 stands for the ticks far above them.
Ticks == 0..(MaxTick + 2)

DataShapes == {"Ref", "Mut"}
FilterShapes == {"NoFilter", "WithP", "ChangedT"}
\* What the other parameters of the same system registered before Single.
PriorParams == {"none", "QueryRefT", "QueryMutT", "QueryMutTWithoutP"}

VARIABLES
    entities,             \* World: id -> [status, comps, val, changed]
    archetypes,           \* World: Archetypes, in creation order (never removed)
    world_tick,           \* World::change_tick
    D, F,                 \* the type parameters of the system's Single<D, F>
    state,                \* SystemParam::State = QueryState<D, F>
    system_meta,          \* the host's SystemMeta of the system
    archetype_generation, \* the host system's count of archetypes handed to new_archetype
    pc,                   \* where the system is
    this_run,             \* the change_tick the host hands to get_param
    single,               \* the Single value of the running invocation
    fetch_ticks,          \* the two ticks get_param handed to the fetch
    fetch_matches,        \* the entities matching D and F when get_param ran
    written,              \* the last value written through the wrapper, or -1
    archetypes_at_init    \* how many archetypes existed when init_state ran

vars == <<entities, archetypes, world_tick, D, F, state, system_meta,
          archetype_generation, pc, this_run, single, fetch_ticks,
          fetch_matches, written, archetypes_at_init>>

world == <<entities, archetypes, world_tick>>

\* --------------------------------------------------------------- the world

NoEntity == 0
Unspawned == [status |-> "unspawned", comps |-> {}, val |-> 0, changed |-> 0]
Despawned == [status |-> "despawned", comps |-> {}, val |-> 0, changed |-> 0]

Alive == {e \in Entities : entities[e].status = "alive"}

HasArchetype(arch, cs) == \E i \in 1..Len(arch) : arch[i] = cs

\* Archetypes::get_or_insert: an archetype is created the first time an entity
\* has its set of components.
WithArchetype(arch, cs) == IF HasArchetype(arch, cs) THEN arch ELSE Append(arch, cs)

ArchetypeOf(e) == CHOOSE i \in 1..Len(archetypes) : archetypes[i] = entities[e].comps

\* Entity ids are allocated in order and never handed out twice.
NextEntity ==
    IF \E e \in Entities : entities[e].status = "unspawned"
    THEN CHOOSE e \in Entities :
            /\ entities[e].status = "unspawned"
            /\ \A o \in Entities : entities[o].status = "unspawned" => e <= o
    ELSE NoEntity

\* ------------------------------------------------------------ change ticks

\* Stands for Tick's MAX_CHANGE_AGE: larger than any age between two ticks of
\* the model.
MAX_CHANGE_AGE == MaxTick + 2

\* Tick::relative_to followed by the cap: a wrapping 32-bit subtraction, which
\* for a tick ahead of this_run wraps to an age beyond the cap.
TicksSince(run, tick) == IF run >= tick THEN run - tick ELSE MAX_CHANGE_AGE

\* The last_run a system starts with: change_tick.relative_to(Tick::MAX), which
\* wraps to a tick far above the world's, MAX_CHANGE_AGE old at every run.
InitialLastRun == MaxTick + 2

\* Tick::is_newer_than
is_newer_than(tick, last_run, run) == TicksSince(run, last_run) > TicksSince(run, tick)

\* ---------------------------------------------------------- the query state

\* World::id of the one world, and the world_id of a QueryState not yet built.
WorldId == "world"
NoWorld == "none"

NoState == [matched |-> {}, world_id |-> NoWorld]
NoMeta == [component_access_set |-> {}, reads |-> {}, writes |-> {}, last_run |-> 0]
NoSingle == [f0 |-> [ptr |-> NoEntity, run |-> 0]]
NoFetch == [last_run |-> 0, this_run |-> 0, done |-> FALSE]

\* WorldQuery::matches_component_set of D and of F against an archetype.
matches_component_set(d, f, cs) ==
    /\ "T" \in cs
    /\ (f = "WithP" => "P" \in cs)

\* WorldQuery::update_component_access of D and F: the FilteredAccess of the query.
component_access(d, f) ==
    [reads   |-> IF d = "Ref" \/ f = "ChangedT" THEN {"T"} ELSE {},
     writes  |-> IF d = "Mut" THEN {"T"} ELSE {},
     with    |-> IF f = "WithP" THEN {"P"} ELSE {},
     without |-> {}]

PriorAccess(p) ==
    CASE p = "none" -> {}
      [] p = "QueryRefT" -> {[reads |-> {"T"}, writes |-> {}, with |-> {}, without |-> {}]}
      [] p = "QueryMutT" -> {[reads |-> {}, writes |-> {"T"}, with |-> {}, without |-> {}]}
      [] p = "QueryMutTWithoutP" ->
            {[reads |-> {}, writes |-> {"T"}, with |-> {}, without |-> {"P"}]}

\* FilteredAccess::is_compatible: the accesses do not clash, or the filters
\* cannot both hold of one entity.
is_compatible(a, b) ==
    \/ /\ a.writes \cap (b.reads \cup b.writes) = {}
       /\ b.writes \cap (a.reads \cup a.writes) = {}
    \/ a.with \cap b.without # {}
    \/ a.without \cap b.with # {}

\* QueryState::update_archetype_component_access: the archetype's T column is
\* read or written.
ArchetypeAccess(d, f, meta, i) ==
    [meta EXCEPT !.reads  = IF d = "Ref" \/ f = "ChangedT" THEN @ \cup {<<i, "T">>} ELSE @,
                 !.writes = IF d = "Mut" THEN @ \cup {<<i, "T">>} ELSE @]

RECURSIVE MatchAll(_, _, _, _, _)
\* QueryState::new_with_access: every archetype of the world, in order.
MatchAll(d, f, arch, i, sm) ==
    IF i > Len(arch) THEN sm
    ELSE IF matches_component_set(d, f, arch[i])
         THEN MatchAll(d, f, arch, i + 1,
                       [st |-> [sm.st EXCEPT !.matched = @ \cup {i}],
                        meta |-> ArchetypeAccess(d, f, sm.meta, i)])
         ELSE MatchAll(d, f, arch, i + 1, sm)

\* <Query<D, F> as SystemParam>::init_state: the query state over the archetypes
\* that exist, its access added to the system's, and a panic when that access
\* clashes with what the system's earlier parameters registered.
Query_init_state(d, f, arch, meta) ==
    LET sm == MatchAll(d, f, arch, 1, [st |-> [NoState EXCEPT !.world_id = WorldId], meta |-> meta])
        acc == component_access(d, f)
    IN  IF \E p \in meta.component_access_set : ~is_compatible(acc, p)
        THEN [panic |-> TRUE, st |-> NoState, meta |-> meta]
        ELSE [panic |-> FALSE, st |-> sm.st,
              meta |-> [sm.meta EXCEPT !.component_access_set = @ \cup {acc}]]

\* <Query<D, F> as SystemParam>::new_archetype
Query_new_archetype(d, f, st, i, cs, meta) ==
    IF matches_component_set(d, f, cs)
    THEN [st |-> [st EXCEPT !.matched = @ \cup {i}], meta |-> ArchetypeAccess(d, f, meta, i)]
    ELSE [st |-> st, meta |-> meta]

\* A Single that builds its QueryState with QueryState::new and registers no
\* access with the system.
Single_init_state_unregistered(d, f, arch, meta) ==
    [panic |-> FALSE,
     st |-> MatchAll(d, f, arch, 1,
                     [st |-> [NoState EXCEPT !.world_id = WorldId], meta |-> meta]).st,
     meta |-> meta]

\* Single::init_state
Single_init_state(d, f, arch, meta) == Query_init_state(d, f, arch, meta)

\* A Single whose new_archetype does nothing.
Single_new_archetype_unforwarded(d, f, st, i, cs, meta) == [st |-> st, meta |-> meta]

\* Single::new_archetype
Single_new_archetype(d, f, st, i, cs, meta) == Query_new_archetype(d, f, st, i, cs, meta)

\* ------------------------------------------------------------------- Init

Init ==
    /\ entities = [e \in Entities |-> Unspawned]
    /\ archetypes = <<{}>>
    /\ world_tick = 1
    /\ D = "unset"
    /\ F = "unset"
    /\ state = NoState
    /\ system_meta = NoMeta
    /\ archetype_generation = 0
    /\ pc = "uninit"
    /\ this_run = 0
    /\ single = NoSingle
    /\ fetch_ticks = NoFetch
    /\ fetch_matches = {}
    /\ written = -1
    /\ archetypes_at_init = 0

\* ------------------------------------------------------- the world changes

SystemUnchanged ==
    UNCHANGED <<D, F, state, system_meta, archetype_generation, pc, this_run,
                single, fetch_ticks, fetch_matches, written, archetypes_at_init>>

\* The world is changed between the system's invocations, never during one.
WorldFree == pc = "idle"

\* Before the system is initialized the world is only populated.
SpawnFree == pc \in {"uninit", "idle"}

\* The value a spawned entity's T starts with: distinct for neighbouring ids.
SpawnValue(e) == e % (MaxVal + 1)

\* World::spawn
Spawn(cs) ==
    /\ SpawnFree
    /\ NextEntity # NoEntity
    /\ entities' = [entities EXCEPT ![NextEntity] =
            [status |-> "alive", comps |-> cs,
             val |-> IF "T" \in cs THEN SpawnValue(NextEntity) ELSE 0,
             changed |-> IF "T" \in cs THEN world_tick ELSE 0]]
    /\ archetypes' = WithArchetype(archetypes, cs)
    /\ UNCHANGED world_tick
    /\ SystemUnchanged

\* World::despawn
Despawn(e) ==
    /\ WorldFree
    /\ e \in Alive
    /\ entities' = [entities EXCEPT ![e] = Despawned]
    /\ UNCHANGED <<archetypes, world_tick>>
    /\ SystemUnchanged

\* EntityWorldMut::insert of the marker component P: the entity moves to the
\* archetype with P.
InsertP(e) ==
    /\ WorldFree
    /\ e \in Alive
    /\ "P" \notin entities[e].comps
    /\ entities' = [entities EXCEPT ![e].comps = @ \cup {"P"}]
    /\ archetypes' = WithArchetype(archetypes, entities[e].comps \cup {"P"})
    /\ UNCHANGED world_tick
    /\ SystemUnchanged

\* EntityWorldMut::remove of the marker component P.
RemoveP(e) ==
    /\ WorldFree
    /\ e \in Alive
    /\ "P" \in entities[e].comps
    /\ entities' = [entities EXCEPT ![e].comps = @ \ {"P"}]
    /\ archetypes' = WithArchetype(archetypes, entities[e].comps \ {"P"})
    /\ UNCHANGED world_tick
    /\ SystemUnchanged

\* ------------------------------------------------------------ the system

\* The entities Query<D, F> yields in the world as it is, for a system that
\* last ran at last_run and runs at run.
QueryMatches(d, f, last_run, run) ==
    {e \in Alive :
        /\ matches_component_set(d, f, entities[e].comps)
        /\ (f = "ChangedT" => is_newer_than(entities[e].changed, last_run, run))}

\* QueryState::iter_unchecked_manual: the entities of the matched archetypes
\* that pass the filter's fetch.
iter_unchecked_manual(st, f, last_run, run) ==
    {e \in Alive :
        /\ ArchetypeOf(e) \in st.matched
        /\ (f = "ChangedT" => is_newer_than(entities[e].changed, last_run, run))}

\* The item of D for an entity: a borrow of its T, with the tick a write stamps.
Item(e, run) == [ptr |-> e, run |-> run]

\* QueryState::get_single_unchecked_manual
get_single_unchecked_manual(st, f, last_run, run) ==
    LET it == iter_unchecked_manual(st, f, last_run, run)
    IN  IF it = {} THEN [ok |-> FALSE, err |-> "NoEntities", item |-> Item(NoEntity, 0)]
        ELSE IF Cardinality(it) > 1
             THEN [ok |-> FALSE, err |-> "MultipleEntities", item |-> Item(NoEntity, 0)]
             ELSE [ok |-> TRUE, err |-> "", item |-> Item(CHOOSE e \in it : TRUE, run)]

\* The tuple struct Single(pub Item)
Single(item) == [f0 |-> item]

\* Deref::deref
Deref(s) == s.f0

\* A deref_mut that hands out a borrow of another entity's T.
DerefMut_other(s) == [s.f0 EXCEPT !.ptr = (@ % MaxEntities) + 1]

\* DerefMut::deref_mut
DerefMut(s) == s.f0

\* What `public_meta.last_run` can read. SystemMetaPublicFields and the host's
\* SystemMeta are two structs of the default representation, whose layouts the
\* language does not relate (and the host's gains two fields under its own
\* `trace` feature): where the layouts agree the read is the system's last_run,
\* where they do not it is whatever 32 bits lie at that offset.
SameLayoutRead(meta) == {meta.last_run}
AnyLayoutRead(meta) == Ticks

\* FunctionSystem::initialize: the parameters registered before Single are in
\* system_meta, then Single::init_state.
InitState(d, f, p) ==
    /\ pc = "uninit"
    /\ LET meta0 == [NoMeta EXCEPT !.component_access_set = PriorAccess(p),
                                   !.last_run = InitialLastRun]
           r == Single_init_state(d, f, archetypes, meta0)
       IN  /\ state' = r.st
           /\ system_meta' = r.meta
           /\ pc' = IF r.panic THEN "init_panicked" ELSE "idle"
    /\ D' = d
    /\ F' = f
    /\ archetypes_at_init' = Len(archetypes)
    /\ UNCHANGED <<entities, archetypes, world_tick, archetype_generation, this_run,
                   single, fetch_ticks, fetch_matches, written>>

RECURSIVE update_archetype_component_access(_, _, _, _, _)
\* FunctionSystem::update_archetype_component_access: Single::new_archetype for
\* every archetype from the system's archetype generation on.
update_archetype_component_access(d, f, arch, i, sm) ==
    IF i > Len(arch) THEN sm
    ELSE update_archetype_component_access(d, f, arch, i + 1,
            Single_new_archetype(d, f, sm.st, i, arch[i], sm.meta))

\* System::run up to the parameters' fetch: the host hands the new archetypes to
\* new_archetype and takes the run's change tick.
BeginRun ==
    /\ pc = "idle"
    /\ world_tick <= MaxTick
    /\ LET r == update_archetype_component_access(D, F, archetypes,
                    archetype_generation + 1, [st |-> state, meta |-> system_meta])
       IN  /\ state' = r.st
           /\ system_meta' = r.meta
    /\ archetype_generation' = Len(archetypes)
    /\ this_run' = world_tick
    /\ world_tick' = world_tick + 1
    /\ pc' = "started"
    /\ UNCHANGED <<entities, archetypes, D, F, single, fetch_ticks, fetch_matches,
                   written, archetypes_at_init>>

\* A get_param that takes the item through a mutable dereference, which stamps
\* the component as changed in this run.
Single_get_param_stamps(readable) ==
    /\ pc = "started"
    /\ state.world_id = WorldId
    /\ \E last_run \in readable :
         LET r == get_single_unchecked_manual(state, F, last_run, this_run)
         IN  /\ fetch_ticks' = [last_run |-> last_run, this_run |-> this_run, done |-> TRUE]
             /\ single' = IF r.ok THEN Single(r.item) ELSE NoSingle
             /\ pc' = IF r.ok THEN "running" ELSE "aborted"
             /\ entities' = IF r.ok
                            THEN [entities EXCEPT ![r.item.ptr].changed = this_run]
                            ELSE entities
    /\ fetch_matches' = QueryMatches(D, F, system_meta.last_run, this_run)
    /\ UNCHANGED <<archetypes, world_tick, D, F, state, system_meta,
                   archetype_generation, this_run, written, archetypes_at_init>>

\* Single::get_param, reading last_run among `readable`.
Single_get_param(readable) ==
    /\ pc = "started"
    /\ state.world_id = WorldId                      \* validate_world
    /\ \E last_run \in readable :
         LET r == get_single_unchecked_manual(state, F, last_run, this_run)
         IN  /\ fetch_ticks' = [last_run |-> last_run, this_run |-> this_run, done |-> TRUE]
             /\ single' = IF r.ok THEN Single(r.item) ELSE NoSingle
             /\ pc' = IF r.ok THEN "running" ELSE "aborted"
    /\ fetch_matches' = QueryMatches(D, F, system_meta.last_run, this_run)
    /\ UNCHANGED <<entities, archetypes, world_tick, D, F, state, system_meta,
                   archetype_generation, this_run, written, archetypes_at_init>>

\* The system's body writes through the wrapper: `*single = v` on a Mut<T>.
Write(v) ==
    /\ pc = "running"
    /\ D = "Mut"
    /\ LET item == DerefMut(single)
       IN  entities' = [entities EXCEPT ![item.ptr] =
                            [@ EXCEPT !.val = v, !.changed = item.run]]
    /\ written' = v
    /\ UNCHANGED <<archetypes, world_tick, D, F, state, system_meta,
                   archetype_generation, pc, this_run, single, fetch_ticks,
                   fetch_matches, archetypes_at_init>>

\* The system's body returns: the wrapper is dropped and the host records the run.
EndRun ==
    /\ pc = "running"
    /\ pc' = "idle"
    /\ single' = NoSingle
    /\ system_meta' = [system_meta EXCEPT !.last_run = this_run]
    /\ fetch_ticks' = NoFetch
    /\ fetch_matches' = {}
    /\ written' = -1
    /\ UNCHANGED <<entities, archetypes, world_tick, D, F, state,
                   archetype_generation, this_run, archetypes_at_init>>

\* The panic of get_param unwinds out of the run: no wrapper, last_run as it was.
Unwind ==
    /\ pc = "aborted"
    /\ pc' = "idle"
    /\ fetch_ticks' = NoFetch
    /\ fetch_matches' = {}
    /\ UNCHANGED <<entities, archetypes, world_tick, D, F, state, system_meta,
                   archetype_generation, this_run, single, written, archetypes_at_init>>

WorldNext ==
    \/ \E cs \in SUBSET Components : Spawn(cs)
    \/ \E e \in Entities : Despawn(e)
    \/ \E e \in Entities : InsertP(e)
    \/ \E e \in Entities : RemoveP(e)

HostNext ==
    \/ \E d \in DataShapes, f \in FilterShapes, p \in PriorParams : InitState(d, f, p)
    \/ BeginRun
    \/ \E v \in Values : Write(v)
    \/ EndRun
    \/ Unwind

Next == WorldNext \/ HostNext \/ Single_get_param(AnyLayoutRead(system_meta))

Spec == Init /\ [][Next]_vars

\* The builds in which the two structs are laid out alike.
NextSameLayout == WorldNext \/ HostNext \/ Single_get_param(SameLayoutRead(system_meta))

SpecSameLayout == Init /\ [][NextSameLayout]_vars

\* ------------------------------------------------------------- the claims

\* get_param has returned or panicked in the invocation under way.
Fetched == pc \in {"running", "aborted"}

\* The wrapper get_param yields when `matches` are the entities it finds.
ExpectedSingle(matches, run) ==
    IF Cardinality(matches) = 1
    THEN Single(Item(CHOOSE e \in matches : TRUE, run))
    ELSE NoSingle

\* The value read through the wrapper.
ReadThrough(s) == entities[Deref(s).ptr].val

\* C1: whenever exactly one entity matches D and F (as Query<D, F>::single
\* would find with the system's own last-run tick), get_param succeeds and the
\* wrapper's field is the item of that entity, reading that entity's data.
C1_UniqueMatchIsWrapped ==
    (Fetched /\ Cardinality(fetch_matches) = 1) =>
        /\ pc = "running"
        /\ Deref(single).ptr \in fetch_matches
        /\ \A e \in fetch_matches : ReadThrough(single) = entities[e].val

\* C2: whenever no entity matches D and F, get_param panics and no wrapper
\* is constructed.
C2_NoMatchAborts ==
    (Fetched /\ fetch_matches = {}) => (pc = "aborted" /\ single = NoSingle)

\* C3: whenever two or more entities match D and F, get_param panics and no
\* wrapper is constructed: it never picks one of the matches.
C3_SeveralMatchesAbort ==
    (Fetched /\ Cardinality(fetch_matches) >= 2) => (pc = "aborted" /\ single = NoSingle)

\* C4: within one invocation, a value written through the wrapper's mutable
\* access is what a later read through the same wrapper yields.
C4_WriteIsRead ==
    (pc = "running" /\ written # -1) => ReadThrough(single) = written

\* C4, its case: a write through the wrapper has changed the entity's value.
C4_Witness ==
    /\ pc = "running"
    /\ written # -1
    /\ written # SpawnValue(Deref(single).ptr)

\* C5, as stated: the outcome of an invocation depends only on the world at
\* that invocation, not on the invocations before it; so it is the outcome the
\* same query has in the same world for a system that has not run before
\* (whose last_run is the initial one, "everything is new"). Stated
\* for the invocations whose read of last_run was the system's own.
C5_OutcomeFromWorldAlone ==
    (Fetched /\ written = -1 /\ fetch_ticks.last_run = system_meta.last_run) =>
        single = ExpectedSingle(QueryMatches(D, F, InitialLastRun, this_run), this_run)

\* C5, amended: the wrapper is built afresh by each invocation and dropped at
\* its end; the outcome (the wrapped entity, or the abort) is decided by the
\* world at that invocation and the two ticks get_param hands to the fetch.
C5_OutcomeFromWorldAndTicks ==
    /\ (Fetched /\ written = -1) =>
            LET m == QueryMatches(D, F, fetch_ticks.last_run, fetch_ticks.this_run)
            IN  /\ single = ExpectedSingle(m, this_run)
                /\ (pc = "aborted") = (Cardinality(m) # 1)
    /\ ~Fetched => single = NoSingle

\* C5, its case: an invocation after an earlier one that wrapped another
\* entity, in a world changed in between.
C5_Witness ==
    /\ pc = "running"
    /\ system_meta.last_run >= 1
    /\ system_meta.last_run < this_run
    /\ Deref(single).ptr = 2
    /\ entities[1].status = "despawned"

\* C6: Single registers what Query<D, F> registers: the query's component
\* access is in the system's access set, a clash with an earlier parameter of
\* the same system panics at initialization, and once the host has handed
\* over the archetypes the T column of exactly the matching ones is
\* registered as read or written.
C6_AccessRegistered ==
    LET acc == component_access(D, F)
        matching == {i \in 1..Len(archetypes) : matches_component_set(D, F, archetypes[i])}
        columns == {<<i, "T">> : i \in matching}
    IN  /\ pc = "init_panicked" =>
                \E p \in system_meta.component_access_set : ~is_compatible(acc, p)
        /\ pc \notin {"uninit", "init_panicked"} =>
                /\ acc \in system_meta.component_access_set
                /\ \A p \in system_meta.component_access_set \ {acc} : is_compatible(acc, p)
                /\ system_meta.reads \cup system_meta.writes \subseteq columns
        /\ pc \in {"started", "running", "aborted"} =>
                /\ system_meta.writes = (IF D = "Mut" THEN columns ELSE {})
                /\ system_meta.reads =
                        (IF D = "Ref" \/ F = "ChangedT" THEN columns ELSE {})

\* C6, its case: a system with an earlier, compatible parameter, and an
\* archetype created after init_state whose column is registered.
C6_Witness ==
    /\ pc = "started"
    /\ Cardinality(system_meta.component_access_set) = 2
    /\ \E a \in system_meta.writes : a[1] > archetypes_at_init

\* C7: get_param aborts if and only if no entity or more than one entity
\* matches D and F.
C7_AbortIffNotUnique ==
    Fetched => ((pc = "aborted") = (Cardinality(fetch_matches) # 1))

\* C8: an entity in a matching archetype created after init_state is counted
\* by later invocations: it is wrapped when it is the only match, and makes
\* get_param abort when it is one of several.
C8_LateArchetypeCounted ==
    Fetched =>
        \A e \in fetch_matches :
            ArchetypeOf(e) > archetypes_at_init =>
                /\ fetch_matches = {e} => (pc = "running" /\ Deref(single).ptr = e)
                /\ fetch_matches # {e} => pc = "aborted"

\* C9: the last-run tick get_param hands to the fetch is the system's last-run
\* tick, and the change tick is the one the host supplied.
C9_TicksPassed ==
    Fetched =>
        /\ fetch_ticks.last_run = system_meta.last_run
        /\ fetch_ticks.this_run = this_run

====
